---- MODULE Spec2Model ----
(***************************************************************************)
(* A model of the Endb key-value facade (src/src/index.js): the adapter   *)
(* resolver `load`, the constructor with its error forwarding, and the     *)
(* operations all, clear, delete, find, get, has, math and set, over the   *)
(* in-memory Map backend and over a non-Map backend object.                *)
(*                                                                         *)
(* JavaScript strings are sequences of one-character strings, so that the  *)
(* namespace prefix, String.prototype.replace, JSON.stringify and          *)
(* JSON.parse are computed character by character.  JavaScript values are  *)
(* records [t |-> <typeof-like tag>, v |-> <payload>].                     *)
(***************************************************************************)
EXTENDS Integers, Sequences, FiniteSets

\* ------------------------------------------------------------------ bounds

\* Largest magnitude of a number held by the store (math is guarded by it).
MaxNum == 2
\* Largest number of math calls in flight at once.
MaxPending == 1
\* Largest number of adds in flight at once when callers do not await them.
MaxRacing == 2
\* Largest number of 'error' listeners registered on the facade.
MaxListeners == 1
\* Largest number of errors the backend reports.
MaxErrors == 2

\* ------------------------------------------------------- JavaScript values

Undefined == [t |-> "undefined", v |-> 0]
Null == [t |-> "null", v |-> 0]
Bool(b) == [t |-> "boolean", v |-> b]
Num(n) == [t |-> "number", v |-> n]
Str(s) == [t |-> "string", v |-> s]
\* elems: the sequence of the array's elements
Arr(elems) == [t |-> "array", v |-> elems]
\* props: the sequence of <<name, value>> pairs, in property order
Obj(props) == [t |-> "object", v |-> props]
\* the result of an operation whose promise rejects (or a call that throws)
Rejected(e) == [t |-> "rejected", v |-> e]
\* the array that all() resolves to: a sequence of [key, value] records
List(entries) == [t |-> "list", v |-> entries]

True == Bool(TRUE)
False == Bool(FALSE)

S_foo == <<"f", "o", "o">>
S_bar == <<"b", "a", "r">>
S_fizz == <<"f", "i", "z", "z">>
S_value == <<"v", "a", "l", "u", "e">>
S_quote == <<"\"">>
S_true == <<"t", "r", "u", "e">>
S_false == <<"f", "a", "l", "s", "e">>
S_null == <<"n", "u", "l", "l">>
S_undefined == <<"u", "n", "d", "e", "f", "i", "n", "e", "d">>
S_objectObject == <<"[", "o", "b", "j", "e", "c", "t", " ", "O", "b", "j", "e", "c", "t", "]">>
\* the text {"value":1}
S_jsonValue1 == <<"{", "\"", "v", "a", "l", "u", "e", "\"", ":", "1", "}">>

Digits == <<"0", "1", "2", "3", "4", "5", "6", "7", "8", "9">>

DigitValue(c) == CHOOSE d \in 0..9 : Digits[d + 1] = c

IsDigit(c) == \E d \in 0..9 : Digits[d + 1] = c

RECURSIVE NatToChars(_)
NatToChars(n) == IF n < 10 THEN <<Digits[n + 1]>>
                 ELSE NatToChars(n \div 10) \o <<Digits[(n % 10) + 1]>>

\* Number.prototype.toString for an integer
NumToChars(n) == IF n < 0 THEN <<"-">> \o NatToChars(0 - n) ELSE NatToChars(n)

\* the text of s from index i on starts with lit
StartsWith(s, i, lit) ==
    /\ i + Len(lit) - 1 <= Len(s)
    /\ \A j \in 1..Len(lit) : s[i + j - 1] = lit[j]

\* the property `name` of an object value, undefined when it has none
RECURSIVE PropOf(_, _)
PropOf(props, name) ==
    IF props = <<>> THEN Undefined
    ELSE IF Head(props)[1] = name THEN Head(props)[2]
    ELSE PropOf(Tail(props), name)

\* --------------------------------------------- JSON.stringify / JSON.parse

\* the characters of a JSON string literal's body: " and \ are escaped
RECURSIVE EscapeChars(_)
EscapeChars(s) ==
    IF s = <<>> THEN <<>>
    ELSE (IF Head(s) = "\"" \/ Head(s) = "\\" THEN <<"\\", Head(s)>> ELSE <<Head(s)>>)
         \o EscapeChars(Tail(s))

QuoteChars(s) == <<"\"">> \o EscapeChars(s) \o <<"\"">>

RECURSIVE StringifyChars(_)
RECURSIVE StringifyElements(_)
RECURSIVE StringifyMembers(_)
\* the JSON text of a value (JSON.stringify of a boolean, null, number,
\* string, array or plain object); an undefined array element prints as null
StringifyChars(x) ==
    CASE x.t = "boolean" -> (IF x.v THEN S_true ELSE S_false)
      [] x.t = "null" -> S_null
      [] x.t = "undefined" -> S_null
      [] x.t = "number" -> NumToChars(x.v)
      [] x.t = "string" -> QuoteChars(x.v)
      [] x.t = "array" -> <<"[">> \o StringifyElements(x.v) \o <<"]">>
      [] x.t = "object" -> <<"{">> \o StringifyMembers(x.v) \o <<"}">>

StringifyElements(elems) ==
    IF elems = <<>> THEN <<>>
    ELSE StringifyChars(Head(elems))
         \o (IF Tail(elems) = <<>> THEN <<>> ELSE <<",">> \o StringifyElements(Tail(elems)))

StringifyMembers(props) ==
    IF props = <<>> THEN <<>>
    ELSE QuoteChars(Head(props)[1]) \o <<":">> \o StringifyChars(Head(props)[2])
         \o (IF Tail(props) = <<>> THEN <<>> ELSE <<",">> \o StringifyMembers(Tail(props)))

\* JSON.stringify(value): the default serialize hook
JSONstringify(x) == Str(StringifyChars(x))

\* String(x), the coercion JSON.parse applies to its argument
RECURSIVE ToStringChars(_)
RECURSIVE JoinChars(_)
ToStringChars(x) ==
    CASE x.t = "string" -> x.v
      [] x.t = "boolean" -> (IF x.v THEN S_true ELSE S_false)
      [] x.t = "null" -> S_null
      [] x.t = "undefined" -> S_undefined
      [] x.t = "number" -> NumToChars(x.v)
      [] x.t = "object" -> S_objectObject
      [] x.t = "array" -> JoinChars(x.v)

\* Array.prototype.join(','): null and undefined elements print as nothing
JoinChars(elems) ==
    IF elems = <<>> THEN <<>>
    ELSE (IF Head(elems).t \in {"null", "undefined"} THEN <<>> ELSE ToStringChars(Head(elems)))
         \o (IF Tail(elems) = <<>> THEN <<>> ELSE <<",">> \o JoinChars(Tail(elems)))

ParseFail(i) == [ok |-> FALSE, val |-> Undefined, next |-> i]
ParseOk(x, n) == [ok |-> TRUE, val |-> x, next |-> n]

\* the digits of s from i on, accumulated into n
RECURSIVE ParseDigits(_, _, _)
ParseDigits(s, i, n) ==
    IF i <= Len(s) /\ IsDigit(s[i]) THEN ParseDigits(s, i + 1, 10 * n + DigitValue(s[i]))
    ELSE ParseOk(Num(n), i)

\* a JSON integer at i: 0, or a nonzero digit followed by digits
ParseNat(s, i) ==
    IF i > Len(s) \/ ~IsDigit(s[i]) THEN ParseFail(i)
    ELSE IF s[i] = "0" THEN ParseOk(Num(0), i + 1)
    ELSE ParseDigits(s, i, 0)

\* the body of a string literal whose opening quote precedes i
RECURSIVE ScanString(_, _, _)
ScanString(s, i, acc) ==
    IF i > Len(s) THEN ParseFail(i)
    ELSE IF s[i] = "\"" THEN ParseOk(Str(acc), i + 1)
    ELSE IF s[i] = "\\"
         THEN IF i + 1 <= Len(s) /\ (s[i + 1] = "\"" \/ s[i + 1] = "\\")
              THEN ScanString(s, i + 2, Append(acc, s[i + 1]))
              ELSE ParseFail(i)
    ELSE ScanString(s, i + 1, Append(acc, s[i]))

RECURSIVE ParseValue(_, _)
RECURSIVE ParseElements(_, _, _)
RECURSIVE ParseMembers(_, _, _)
\* the JSON value that starts at index i of s
ParseValue(s, i) ==
    IF i > Len(s) THEN ParseFail(i)
    ELSE IF StartsWith(s, i, S_true) THEN ParseOk(True, i + 4)
    ELSE IF StartsWith(s, i, S_false) THEN ParseOk(False, i + 5)
    ELSE IF StartsWith(s, i, S_null) THEN ParseOk(Null, i + 4)
    ELSE IF s[i] = "\"" THEN ScanString(s, i + 1, <<>>)
    ELSE IF s[i] = "[" THEN
        IF i + 1 <= Len(s) /\ s[i + 1] = "]" THEN ParseOk(Arr(<<>>), i + 2)
        ELSE ParseElements(s, i + 1, <<>>)
    ELSE IF s[i] = "{" THEN
        IF i + 1 <= Len(s) /\ s[i + 1] = "}" THEN ParseOk(Obj(<<>>), i + 2)
        ELSE ParseMembers(s, i + 1, <<>>)
    ELSE IF s[i] = "-" THEN
        LET r == ParseNat(s, i + 1)
        IN  IF r.ok THEN ParseOk(Num(0 - r.val.v), r.next) ELSE ParseFail(i)
    ELSE ParseNat(s, i)

ParseElements(s, i, acc) ==
    LET r == ParseValue(s, i)
    IN  IF ~r.ok \/ r.next > Len(s) THEN ParseFail(i)
        ELSE IF s[r.next] = "," THEN ParseElements(s, r.next + 1, Append(acc, r.val))
        ELSE IF s[r.next] = "]" THEN ParseOk(Arr(Append(acc, r.val)), r.next + 1)
        ELSE ParseFail(i)

ParseMembers(s, i, acc) ==
    IF i > Len(s) \/ s[i] # "\"" THEN ParseFail(i)
    ELSE LET k == ScanString(s, i + 1, <<>>)
         IN  IF ~k.ok \/ k.next > Len(s) \/ s[k.next] # ":" THEN ParseFail(i)
             ELSE LET r == ParseValue(s, k.next + 1)
                  IN  IF ~r.ok \/ r.next > Len(s) THEN ParseFail(i)
                      ELSE IF s[r.next] = ","
                           THEN ParseMembers(s, r.next + 1, Append(acc, <<k.val.v, r.val>>))
                      ELSE IF s[r.next] = "}"
                           THEN ParseOk(Obj(Append(acc, <<k.val.v, r.val>>)), r.next + 1)
                      ELSE ParseFail(i)

\* JSON.parse(text): the default deserialize hook.  The argument is coerced
\* to a string first; a text that is not one JSON value throws SyntaxError.
JSONparse(text) ==
    LET s == ToStringChars(text)
        r == ParseValue(s, 1)
    IN  IF r.ok /\ r.next = Len(s) + 1 THEN r.val ELSE Rejected("SyntaxError")

\* x[name] for a property name that no prototype defines: a TypeError on
\* null and undefined, the own property of an object, undefined otherwise
Member(x, name) ==
    CASE x.t \in {"null", "undefined"} -> Rejected("TypeError")
      [] x.t = "object" -> PropOf(x.v, name)
      [] OTHER -> Undefined

\* typeof x
TypeOf(x) ==
    CASE x.t \in {"object", "array", "null"} -> "object"
      [] OTHER -> x.t

\* the index of the first occurrence of pat in s, 0 when there is none
IndexOf(s, pat) ==
    LET hits == {i \in 1..Len(s) : StartsWith(s, i, pat)}
    IN  IF hits = {} THEN 0 ELSE CHOOSE i \in hits : \A j \in hits : i <= j

\* s.replace(pat, ''): the first occurrence of the string pat is removed
ReplaceFirst(s, pat) ==
    LET i == IndexOf(s, pat)
    IN  IF i = 0 THEN s ELSE SubSeq(s, 1, i - 1) \o SubSeq(s, i + Len(pat), Len(s))

\* ------------------------------------------------------- adapter resolver

S_endb == <<"e", "n", "d", "b">>
S_level == <<"l", "e", "v", "e", "l">>
S_leveldb == <<"l", "e", "v", "e", "l", "d", "b">>
S_mongo == <<"m", "o", "n", "g", "o">>
S_mongodb == <<"m", "o", "n", "g", "o", "d", "b">>
S_mysql == <<"m", "y", "s", "q", "l">>
S_mysql2 == <<"m", "y", "s", "q", "l", "2">>
S_postgres == <<"p", "o", "s", "t", "g", "r", "e", "s">>
S_postgresql == <<"p", "o", "s", "t", "g", "r", "e", "s", "q", "l">>
S_redis == <<"r", "e", "d", "i", "s">>
S_sqlite == <<"s", "q", "l", "i", "t", "e">>
S_sqlite3 == <<"s", "q", "l", "i", "t", "e", "3">>
S_constructor == <<"c", "o", "n", "s", "t", "r", "u", "c", "t", "o", "r">>
S_toString == <<"t", "o", "S", "t", "r", "i", "n", "g">>
S_valueOf == <<"v", "a", "l", "u", "e", "O", "f">>
S_slashes == <<":", "/", "/", "x">>

\* the keys the adapters object literal lists
ListedAdapters ==
    {S_level, S_leveldb, S_mongo, S_mongodb, S_mysql, S_mysql2, S_postgres,
     S_postgresql, S_redis, S_sqlite, S_sqlite3}

\* names every object literal inherits from Object.prototype
ObjectPrototypeNames == {S_constructor, S_toString, S_valueOf}

\* adapters[name]: the module path of a listed key, the inherited function
\* of an Object.prototype name, undefined otherwise
adapters(name) ==
    IF name \in {S_level, S_leveldb} THEN Str(<<"l", "e", "v", "e", "l", "d", "b">>)
    ELSE IF name \in {S_mongo, S_mongodb} THEN Str(<<"m", "o", "n", "g", "o", "d", "b">>)
    ELSE IF name \in {S_mysql, S_mysql2} THEN Str(<<"m", "y", "s", "q", "l">>)
    ELSE IF name \in {S_postgres, S_postgresql} THEN Str(<<"p", "o", "s", "t", "g", "r", "e", "s">>)
    ELSE IF name = S_redis THEN Str(<<"r", "e", "d", "i", "s">>)
    ELSE IF name \in {S_sqlite, S_sqlite3} THEN Str(<<"s", "q", "l", "i", "t", "e">>)
    ELSE IF name \in ObjectPrototypeNames THEN [t |-> "function", v |-> name]
    ELSE Undefined

\* /^[^:]*/.exec(uri)[0]: the longest prefix of uri without a ':'
SchemeOf(uri) ==
    LET i == IndexOf(uri, <<":">>)
    IN  IF i = 0 THEN uri ELSE SubSeq(uri, 1, i - 1)

\* the truthiness of an option that is undefined or a string
Truthy(x) == ~(x.t = "undefined" \/ (x.t = "string" /\ x.v = <<>>))

\* load(options): [kind |-> "map"] for a fresh Map, [kind |-> "adapter"]
\* for an instance of a listed backend module, [kind |-> "threw"] when
\* require is handed something that is not a module path
load(o) ==
    IF Truthy(o.adapter) \/ Truthy(o.uri)
    THEN LET adapter == IF Truthy(o.adapter) THEN o.adapter.v ELSE SchemeOf(o.uri.v)
         IN  IF adapters(adapter) # Undefined
             THEN IF adapters(adapter).t = "string"
                  THEN [kind |-> "adapter", on |-> TRUE]
                  ELSE [kind |-> "threw", on |-> FALSE]
             ELSE [kind |-> "map", on |-> FALSE]
    ELSE [kind |-> "map", on |-> FALSE]

\* the backend a store option stands for: a Map, an object with an on
\* method ("emitter"), an object without one ("plain")
GivenStore(st) ==
    CASE st = "map" -> [kind |-> "map", on |-> FALSE]
      [] st = "emitter" -> [kind |-> "adapter", on |-> TRUE]
      [] st = "plain" -> [kind |-> "adapter", on |-> FALSE]

\* the constructor's choice of backend: options.store, else load(options)
constructor(o) == IF o.store # "none" THEN GivenStore(o.store) ELSE load(o)

\* ------------------------------------------------------------------ state

VARIABLES
    phase,      \* "new" before the constructor ran, then "ready" or "threw"
    options,    \* the merged options the constructor was given
    kind,       \* "map": options.store instanceof Map; "adapter": it is not
    hasOn,      \* typeof options.store.on === 'function'
    store,      \* the backend's entries [key, value], in insertion order
    pending,    \* the math calls between their get and their set
    last,       \* the call that settled last: op, key, arg, res, hooks invoked
    shadow,     \* per key, the value of the latest set call; undefined if none
    sum,        \* per key, the number a set followed by undisturbed adds leaves
    cleared,    \* clear() has resolved and no set followed it
    listeners,  \* the number of 'error' listeners registered on the facade
    reported,   \* the errors the backend has reported, in order
    delivered,  \* the errors emitted on the facade's 'error' channel, in order
    crashed,    \* an exception escaped into the backend's reporting path
    written,    \* per namespace, the keys set through a facade of that namespace
                \* and not deleted or cleared through it since
    adds        \* for the key of RaceKeys, the number its latest set left (m),
                \* the operands of the adds called on it since (ops), and whether
                \* one of them read the key while another was in flight (overlap)

vars == <<phase, options, kind, hasOn, store, pending, last, shadow, sum, cleared,
          listeners, reported, delivered, crashed, written, adds>>

\* options.namespace, left at its default
namespace == S_endb

\* the keys callers use; the second one begins with the namespace prefix
UserKeys == {S_foo, S_endb \o <<":">> \o S_foo}

\* the values callers store
Values ==
    {True, False, Null, Num(0), Num(1), Str(S_bar), Str(S_quote), Str(S_jsonValue1),
     Obj(<< <<S_bar, Str(S_fizz)>> >>), Arr(<<Str(S_bar)>>)}

\* the operations and operands of math
Operations == {"add", "subtract"}

Operands == {1, 2}

\* the predicates handed to find
Predicates == {"isBar", "isNumber"}

\* fn(value) for a predicate of Predicates
Apply(fn, x) ==
    CASE fn = "isBar" -> (x = Str(S_bar))
      [] fn = "isNumber" -> (x.t = "number")

\* the errors a backend reports
Errors == {"ECONNREFUSED", "SQLITE_CANTOPEN"}

NoCall == [op |-> "none", key |-> <<>>, arg |-> Undefined, res |-> Undefined,
           ser |-> FALSE, de |-> FALSE, before |-> Undefined]

\* a settled call: ser and de tell whether it invoked the serialize and the
\* deserialize hook, before is what the call found (for get and has the
\* key's latest set value; for delete true when the key had one; for clear
\* the number of entries; for math the number the key was known to hold
\* when math was called with nothing else in flight on it)
Call(op, key, arg, res, ser, de, before) ==
    [op |-> op, key |-> key, arg |-> arg, res |-> res, ser |-> ser, de |-> de,
     before |-> before]

\* _addKeyPrefix(key)
addKeyPrefix(key) == namespace \o <<":">> \o key

\* _removeKeyPrefix(key)
removeKeyPrefix(key) == ReplaceFirst(key, namespace \o <<":">>)

\* ------------------------------------------------------------ the backends

\* the position of key among the entries, 0 when it is absent
IndexOfKey(st, key) ==
    IF \E i \in 1..Len(st) : st[i].key = key
    THEN CHOOSE i \in 1..Len(st) : st[i].key = key
    ELSE 0

\* Map.prototype.get
MapGet(st, key) == IF IndexOfKey(st, key) = 0 THEN Undefined ELSE st[IndexOfKey(st, key)].value

\* Map.prototype.has
MapHas(st, key) == IndexOfKey(st, key) # 0

\* Map.prototype.set: an existing key keeps its place, a new one goes last
MapSet(st, key, value) ==
    IF IndexOfKey(st, key) = 0 THEN Append(st, [key |-> key, value |-> value])
    ELSE [st EXCEPT ![IndexOfKey(st, key)].value = value]

\* Map.prototype.delete: the entries left
MapDelete(st, key) ==
    LET i == IndexOfKey(st, key)
    IN  IF i = 0 THEN st ELSE SubSeq(st, 1, i - 1) \o SubSeq(st, i + 1, Len(st))

\* a clear that leaves the entries in place
MapClearNothing(st) == st

\* Map.prototype.clear: the entries left
MapClear(st) == <<>>

\* a backend module's get, set and delete: those of a dictionary
AdapterGet(st, key) == IF IndexOfKey(st, key) = 0 THEN Undefined ELSE st[IndexOfKey(st, key)].value

AdapterSet(st, key, value) ==
    IF IndexOfKey(st, key) = 0 THEN Append(st, [key |-> key, value |-> value])
    ELSE [st EXCEPT ![IndexOfKey(st, key)].value = value]

AdapterDelete(st, key) ==
    LET i == IndexOfKey(st, key)
    IN  IF i = 0 THEN st ELSE SubSeq(st, 1, i - 1) \o SubSeq(st, i + 1, Len(st))

\* the entries of st whose key does (keep) or does not begin with prefix
RECURSIVE FilterPrefix(_, _, _)
FilterPrefix(st, prefix, keep) ==
    IF st = <<>> THEN <<>>
    ELSE (IF StartsWith(Head(st).key, 1, prefix) = keep THEN <<Head(st)>> ELSE <<>>)
         \o FilterPrefix(Tail(st), prefix, keep)

\* a backend module's clear: the entries of the namespace go
AdapterClear(st, ns) == FilterPrefix(st, ns \o <<":">>, FALSE)

\* a backend module's all: the namespace's entries, keys without the prefix
AdapterAll(st, ns) ==
    LET mine == FilterPrefix(st, ns \o <<":">>, TRUE)
    IN  List([i \in 1..Len(mine) |->
                [key |-> SubSeq(mine[i].key, Len(ns) + 2, Len(mine[i].key)),
                 value |-> mine[i].value]])

storeGet(key) == IF kind = "map" THEN MapGet(store, key) ELSE AdapterGet(store, key)

storeSet(key, value) ==
    IF kind = "map" THEN MapSet(store, key, value) ELSE AdapterSet(store, key, value)

storeDelete(key) == IF kind = "map" THEN MapDelete(store, key) ELSE AdapterDelete(store, key)

storeClear == IF kind = "map" THEN MapClear(store) ELSE AdapterClear(store, namespace)

\* ---------------------------------------------------- the facade's results

\* options.serialize and options.deserialize, left at their defaults
serialize(value) == JSONstringify(value)

deserialize(data) == JSONparse(data)

\* set handing the backend the serialized text instead of the value
setValueSerialized(value) == serialize(value)

\* the value set hands to the backend's set
setValue(value) == value

\* what get(key) resolves to
get(key) ==
    LET data == storeGet(addKeyPrefix(key))
    IN  IF data = Undefined THEN Undefined ELSE data

\* what has(key) resolves to
has(key) ==
    LET prefixed == addKeyPrefix(key)
    IN  IF kind = "map" THEN Bool(MapHas(store, prefixed))
        ELSE Bool(TypeOf(get(prefixed)) = "object")

\* what the backend's delete(key) returns: whether the key was there
deleteResult(key) == Bool(IndexOfKey(store, addKeyPrefix(key)) # 0)

\* the loop of all() over a Map from entry i on; a throw rejects all()
RECURSIVE MapAllFrom(_, _, _)
MapAllFrom(st, i, arr) ==
    IF i > Len(st) THEN List(arr)
    ELSE LET d == deserialize(st[i].value)
             x == IF d.t = "rejected" THEN d ELSE Member(d, S_value)
         IN  IF x.t = "rejected" THEN x
             ELSE MapAllFrom(st, i + 1,
                             Append(arr, [key |-> removeKeyPrefix(st[i].key), value |-> x]))

\* what all() resolves to
all == IF kind = "map" THEN MapAllFrom(store, 1, <<>>) ELSE AdapterAll(store, namespace)

\* what find(fn) resolves to
find(fn) ==
    LET elements == all
    IN  IF elements.t = "rejected" THEN elements
        ELSE LET hits == {i \in 1..Len(elements.v) : Apply(fn, elements.v[i].value)}
             IN  IF hits = {} THEN Undefined
                 ELSE [t |-> "entry", v |-> elements.v[CHOOSE i \in hits : \A j \in hits : i <= j]]

\* util.math(base, operation, operand)
UtilMath(base, operation, operand) ==
    IF base.t # "number" THEN Rejected("TypeError")
    ELSE CASE operation = "add" -> Num(base.v + operand)
           [] operation = "subtract" -> Num(base.v - operand)
           [] OTHER -> Rejected("TypeError")

\* math computing from 0 instead of from the value it read
mathValueNoRead(base, operation, operand) == UtilMath(Num(0), operation, operand)

\* math adding or subtracting one more than the operand
mathValueOneOff(base, operation, operand) == UtilMath(base, operation, operand + 1)

\* the value math hands to set
mathValue(base, operation, operand) == UtilMath(base, operation, operand)

\* the math calls in flight on key are no longer alone on it
Disturb(p, key) ==
    [i \in 1..Len(p) |-> IF p[i].key = key THEN [p[i] EXCEPT !.solo = FALSE] ELSE p[i]]

DisturbAll(p) == [i \in 1..Len(p) |-> [p[i] EXCEPT !.solo = FALSE]]

NoValues == [k \in UserKeys |-> Undefined]

\* a math call on key is between its get and its set
InFlight(key) == \E i \in 1..Len(pending) : pending[i].key = key

NoAdd == [m |-> Undefined, ops |-> <<>>, overlap |-> FALSE]

\* the key on which callers make adds without awaiting them
RaceKeys == {S_foo}

NoAdds == [k \in RaceKeys |-> NoAdd]

\* adds once set(key, value) has settled: a number set with no math in
\* flight on the key is one that later adds start from
AddsAfterSet(key, value) ==
    [k \in RaceKeys |->
        IF k # key THEN adds[k]
        ELSE IF value.t = "number" /\ ~InFlight(key)
             THEN [m |-> value, ops |-> <<>>, overlap |-> FALSE]
             ELSE NoAdd]

\* adds once the get of math(key, operation, operand) has resolved: the
\* first two adds since the set are kept
AddsAfterMath(key, operation, operand) ==
    [k \in RaceKeys |->
        IF k # key THEN adds[k]
        ELSE IF adds[k].m # Undefined /\ operation = "add" /\ Len(adds[k].ops) < 2
             THEN [m |-> adds[k].m, ops |-> Append(adds[k].ops, operand),
                   overlap |-> adds[k].overlap \/ InFlight(key)]
             ELSE NoAdd]

\* ---------------------------------------------------------------- actions

Set(key, value) ==
    /\ phase = "ready"
    /\ store' = storeSet(addKeyPrefix(key), setValue(value))
    /\ last' = Call("set", key, value, True, TRUE, FALSE, Undefined)
    /\ shadow' = [shadow EXCEPT ![key] = value]
    /\ sum' = [sum EXCEPT ![key] = IF value.t = "number" THEN value ELSE Undefined]
    /\ cleared' = FALSE
    /\ pending' = Disturb(pending, key)
    /\ adds' = AddsAfterSet(key, value)
    /\ UNCHANGED <<phase, options, kind, hasOn, listeners, reported, delivered, crashed, written>>

Get(key) ==
    /\ phase = "ready"
    /\ last' = Call("get", key, Undefined, get(key), FALSE, FALSE, shadow[key])
    /\ UNCHANGED <<phase, options, kind, hasOn, store, pending, shadow, sum, cleared,
                   listeners, reported, delivered, crashed, written, adds>>

Has(key) ==
    /\ phase = "ready"
    /\ last' = Call("has", key, Undefined, has(key), FALSE, FALSE, shadow[key])
    /\ UNCHANGED <<phase, options, kind, hasOn, store, pending, shadow, sum, cleared,
                   listeners, reported, delivered, crashed, written, adds>>

Delete(key) ==
    /\ phase = "ready"
    /\ store' = storeDelete(addKeyPrefix(key))
    /\ last' = Call("delete", key, Undefined, deleteResult(key), FALSE, FALSE,
                    IF shadow[key] # Undefined THEN True ELSE Undefined)
    /\ shadow' = [shadow EXCEPT ![key] = Undefined]
    /\ sum' = [sum EXCEPT ![key] = Undefined]
    /\ pending' = Disturb(pending, key)
    /\ adds' = AddsAfterSet(key, Undefined)
    /\ UNCHANGED <<phase, options, kind, hasOn, cleared, listeners, reported, delivered, crashed,
                   written>>

Clear ==
    /\ phase = "ready"
    /\ store' = storeClear
    /\ last' = Call("clear", <<>>, Undefined, Undefined, FALSE, FALSE, Num(Len(store)))
    /\ shadow' = NoValues
    /\ sum' = NoValues
    /\ cleared' = TRUE
    /\ pending' = DisturbAll(pending)
    /\ adds' = NoAdds
    /\ UNCHANGED <<phase, options, kind, hasOn, listeners, reported, delivered, crashed, written>>

All ==
    /\ phase = "ready"
    /\ last' = Call("all", <<>>, Undefined, all, FALSE, kind = "map" /\ store # <<>>,
                    Undefined)
    /\ UNCHANGED <<phase, options, kind, hasOn, store, pending, shadow, sum, cleared,
                   listeners, reported, delivered, crashed, written, adds>>

Find(fn) ==
    /\ phase = "ready"
    /\ last' = Call("find", <<>>, [t |-> "function", v |-> fn], find(fn), FALSE,
                    kind = "map" /\ store # <<>>, Undefined)
    /\ UNCHANGED <<phase, options, kind, hasOn, store, pending, shadow, sum, cleared,
                   listeners, reported, delivered, crashed, written, adds>>

\* math from util.math on, for the call p that read p.base: the set of the
\* computed value, or the rejection; rest are the other calls in flight
MathSettle(p, rest) ==
    LET x == mathValue(p.base, p.operation, p.operand)
        arg == [t |-> "math", v |-> <<p.operation, p.operand>>]
        found == IF p.solo THEN p.m ELSE Undefined
    IN  IF x.t = "rejected"
        THEN /\ last' = Call("math", p.key, arg, x, FALSE, FALSE, found)
             /\ pending' = rest
             /\ UNCHANGED <<store, shadow, sum, cleared>>
        ELSE /\ store' = storeSet(addKeyPrefix(p.key), setValue(x))
             /\ last' = Call("math", p.key, arg, True, TRUE, FALSE, found)
             /\ shadow' = [shadow EXCEPT ![p.key] = x]
             /\ sum' = [sum EXCEPT ![p.key] =
                           IF p.solo /\ p.m.t = "number" /\ p.operation = "add"
                           THEN Num(p.m.v + p.operand) ELSE Undefined]
             /\ cleared' = FALSE
             /\ pending' = Disturb(rest, p.key)

\* the numbers math may produce stay within the bound
MathInBound(key, operation, operand) ==
    LET r == mathValue(get(key), operation, operand)
    IN  r.t = "number" => (r.v <= MaxNum /\ 0 - r.v <= MaxNum)

\* the call math(key, operation, operand) at the moment its get resolves
MathCall(key, operation, operand) ==
    [key |-> key, operation |-> operation, operand |-> operand, base |-> get(key),
     solo |-> \A i \in 1..Len(pending) : pending[i].key # key,
     m |-> sum[key]]

\* math(key, operation, operand) awaited by a caller that runs nothing else
\* meanwhile: its get and its set with no other call between them
Math(key, operation, operand) ==
    /\ phase = "ready"
    /\ pending = <<>>
    /\ MathInBound(key, operation, operand)
    /\ MathSettle(MathCall(key, operation, operand), pending)
    /\ adds' = AddsAfterMath(key, operation, operand)
    /\ UNCHANGED <<phase, options, kind, hasOn, listeners, reported, delivered, crashed, written>>

\* math up to the resolution of its get: the value read is held by the call
MathBegin(key, operation, operand) ==
    /\ phase = "ready"
    /\ MathInBound(key, operation, operand)
    /\ pending' = Append(Disturb(pending, key), MathCall(key, operation, operand))
    /\ adds' = AddsAfterMath(key, operation, operand)
    /\ UNCHANGED <<phase, options, kind, hasOn, store, last, shadow, sum, cleared,
                   listeners, reported, delivered, crashed, written>>

\* a math call made while fewer than MaxPending others are in flight
MathStart(key, operation, operand) ==
    /\ Len(pending) < MaxPending
    /\ MathBegin(key, operation, operand)

\* an add made while fewer than MaxRacing others are in flight
MathRace(key, operand) ==
    /\ Len(pending) < MaxRacing
    /\ MathBegin(key, "add", operand)

\* math from util.math on, for the i-th call in flight
MathFinish(i) ==
    /\ phase = "ready"
    /\ i \in 1..Len(pending)
    /\ MathSettle(pending[i], SubSeq(pending, 1, i - 1) \o SubSeq(pending, i + 1, Len(pending)))
    /\ UNCHANGED <<phase, options, kind, hasOn, listeners, reported, delivered, crashed, written, adds>>

\* math(key, 'random', operand): a set of a rounded random number
MathRandom(key, operand) ==
    /\ phase = "ready"
    /\ \E r \in 0..operand :
          /\ store' = storeSet(addKeyPrefix(key), setValue(Num(r)))
          /\ shadow' = [shadow EXCEPT ![key] = Num(r)]
          /\ sum' = [sum EXCEPT ![key] = Num(r)]
          /\ adds' = AddsAfterSet(key, Num(r))
    /\ last' = Call("math", key, [t |-> "math", v |-> <<"random", operand>>], True, TRUE, FALSE,
                    Undefined)
    /\ cleared' = FALSE
    /\ pending' = Disturb(pending, key)
    /\ UNCHANGED <<phase, options, kind, hasOn, listeners, reported, delivered, crashed, written>>

\* new Endb(options)
Construct(o) ==
    /\ phase = "new"
    /\ options' = o
    /\ LET b == constructor(o)
       IN  IF b.kind = "threw"
           THEN /\ phase' = "threw"
                /\ UNCHANGED <<kind, hasOn>>
           ELSE /\ phase' = "ready"
                /\ kind' = b.kind
                /\ hasOn' = b.on
    /\ UNCHANGED <<store, pending, last, shadow, sum, cleared, listeners, reported,
                   delivered, crashed, written, adds>>

\* endb.on('error', listener)
On ==
    /\ phase = "ready"
    /\ ~crashed
    /\ listeners < MaxListeners
    /\ listeners' = listeners + 1
    /\ UNCHANGED <<phase, options, kind, hasOn, store, pending, last, shadow, sum, cleared,
                   reported, delivered, crashed, written, adds>>

\* EventEmitter.prototype.emit('error', err) on an emitter with n listeners:
\* err goes out on the channel; with no listener to take it, it is thrown
emit(n, err) == [threw |-> n = 0, event |-> err]

\* the backend emits 'error': the constructor's listener runs this.emit
StoreError(err) ==
    /\ phase = "ready"
    /\ hasOn
    /\ ~crashed
    /\ Len(reported) < MaxErrors
    /\ reported' = Append(reported, err)
    /\ delivered' = Append(delivered, emit(listeners, err).event)
    /\ crashed' = emit(listeners, err).threw
    /\ UNCHANGED <<phase, options, kind, hasOn, store, pending, last, shadow, sum, cleared,
                   listeners, written, adds>>

\* -------------------------------------- facades sharing one backend object

\* the namespaces of two facades constructed, in this order, over one backend
S_foofoo == S_foo \o <<":">> \o S_foo

Namespaces == <<S_endb, S_endb \o <<":">> \o S_foo>>

\* the keys their callers use
SharedKeys == {S_foo, S_foofoo}

\* the values their callers store
SharedValues == {Num(1), Str(S_bar)}

\* the namespace of the other facade
Other(ns) == IF ns = Namespaces[1] THEN Namespaces[2] ELSE Namespaces[1]

\* store.namespace: each constructor assigns it, the later one's stays
storeNamespace == Namespaces[Len(Namespaces)]

NoWritten == [ns \in {Namespaces[i] : i \in 1..Len(Namespaces)} |-> {}]

\* _addKeyPrefix(key) of the facade whose options.namespace is ns
addKeyPrefixOf(ns, key) == ns \o <<":">> \o key

\* _removeKeyPrefix(key) of that facade
removeKeyPrefixOf(ns, key) == ReplaceFirst(key, ns \o <<":">>)

\* what its get(key) resolves to
getOf(ns, key) ==
    LET data == storeGet(addKeyPrefixOf(ns, key))
    IN  IF data = Undefined THEN Undefined ELSE data

\* what its has(key) resolves to
hasOf(ns, key) ==
    LET prefixed == addKeyPrefixOf(ns, key)
    IN  IF kind = "map" THEN Bool(MapHas(store, prefixed))
        ELSE Bool(TypeOf(getOf(ns, prefixed)) = "object")

\* the loop of its all() over a Map from entry i on
RECURSIVE MapAllFromOf(_, _, _, _)
MapAllFromOf(ns, st, i, arr) ==
    IF i > Len(st) THEN List(arr)
    ELSE LET d == deserialize(st[i].value)
             x == IF d.t = "rejected" THEN d ELSE Member(d, S_value)
         IN  IF x.t = "rejected" THEN x
             ELSE MapAllFromOf(ns, st, i + 1,
                               Append(arr, [key |-> removeKeyPrefixOf(ns, st[i].key),
                                            value |-> x]))

\* what its all() resolves to
allOf(ns) ==
    IF kind = "map" THEN MapAllFromOf(ns, store, 1, <<>>)
    ELSE AdapterAll(store, storeNamespace)

\* the entries its clear() leaves in the backend
clearOf(ns) == IF kind = "map" THEN MapClear(store) ELSE AdapterClear(store, storeNamespace)

\* what the facade of namespace ns resolves get(k), has(k) and all() to
ViewOf(ns) ==
    [get |-> [k \in SharedKeys |-> getOf(ns, k)],
     has |-> [k \in SharedKeys |-> hasOf(ns, k)],
     all |-> allOf(ns)]

\* a call settled on the facade of namespace ns; before is what the other
\* facade resolved get, has and all to when the call was made
CallOf(ns, op, key, arg, res) ==
    [ns |-> ns, op |-> op, key |-> key, arg |-> arg, res |-> res,
     before |-> ViewOf(Other(ns))]

SetOf(ns, key, value) ==
    /\ phase = "ready"
    /\ store' = storeSet(addKeyPrefixOf(ns, key), setValue(value))
    /\ last' = CallOf(ns, "set", key, value, True)
    /\ written' = [written EXCEPT ![ns] = @ \cup {key}]
    /\ UNCHANGED <<phase, options, kind, hasOn, pending, shadow, sum, cleared, listeners,
                   reported, delivered, crashed, adds>>

DeleteOf(ns, key) ==
    /\ phase = "ready"
    /\ store' = storeDelete(addKeyPrefixOf(ns, key))
    /\ last' = CallOf(ns, "delete", key, Undefined,
                      Bool(IndexOfKey(store, addKeyPrefixOf(ns, key)) # 0))
    /\ written' = [written EXCEPT ![ns] = @ \ {key}]
    /\ UNCHANGED <<phase, options, kind, hasOn, pending, shadow, sum, cleared, listeners,
                   reported, delivered, crashed, adds>>

ClearOf(ns) ==
    /\ phase = "ready"
    /\ store' = clearOf(ns)
    /\ last' = CallOf(ns, "clear", <<>>, Undefined, Undefined)
    /\ written' = [written EXCEPT ![ns] = {}]
    /\ UNCHANGED <<phase, options, kind, hasOn, pending, shadow, sum, cleared, listeners,
                   reported, delivered, crashed, adds>>

\* math(key, 'add', operand), awaited: its get and its set
MathOf(ns, key, operand) ==
    /\ phase = "ready"
    /\ LET x == mathValue(getOf(ns, key), "add", operand)
           arg == [t |-> "math", v |-> <<"add", operand>>]
       IN  IF x.t = "rejected"
           THEN /\ last' = CallOf(ns, "math", key, arg, x)
                /\ UNCHANGED <<store, written>>
           ELSE /\ x.v <= MaxNum
                /\ store' = storeSet(addKeyPrefixOf(ns, key), setValue(x))
                /\ last' = CallOf(ns, "math", key, arg, True)
                /\ written' = [written EXCEPT ![ns] = @ \cup {key}]
    /\ UNCHANGED <<phase, options, kind, hasOn, pending, shadow, sum, cleared, listeners,
                   reported, delivered, crashed, adds>>

\* --------------------------------------------------------- specifications

NoOptions == [adapter |-> Undefined, uri |-> Undefined, store |-> "none"]

\* the options the constructor is tried with
AdapterOptions == {Undefined, Str(S_sqlite), Str(S_bar), Str(S_constructor)}

UriOptions ==
    {Undefined, Str(<<>>), Str(S_sqlite \o S_slashes), Str(S_redis \o S_slashes),
     Str(S_bar \o S_slashes), Str(S_bar), Str(S_slashes), Str(S_toString \o S_slashes)}

StoreOptions == {"none", "map", "emitter", "plain"}

AllOptions == [adapter : AdapterOptions, uri : UriOptions, store : StoreOptions]

\* the options of the instances whose operations are explored
ReadyOptions == {NoOptions, [NoOptions EXCEPT !.uri = Str(S_sqlite \o S_slashes)]}

\* a constructed instance over an empty backend
Init ==
    /\ phase = "ready"
    /\ options \in ReadyOptions
    /\ kind = constructor(options).kind
    /\ hasOn = constructor(options).on
    /\ store = <<>>
    /\ pending = <<>>
    /\ last = NoCall
    /\ shadow = NoValues
    /\ sum = NoValues
    /\ cleared = FALSE
    /\ listeners = 0
    /\ reported = <<>>
    /\ delivered = <<>>
    /\ crashed = FALSE
    /\ written = NoWritten
    /\ adds = NoAdds

Next ==
    \/ \E key \in UserKeys, value \in Values : Set(key, value)
    \/ \E key \in UserKeys : Get(key)
    \/ \E key \in UserKeys : Has(key)
    \/ \E key \in UserKeys : Delete(key)
    \/ Clear
    \/ All
    \/ \E fn \in Predicates : Find(fn)
    \/ \E key \in UserKeys, operation \in Operations, operand \in Operands :
          Math(key, operation, operand)
    \/ \E key \in UserKeys, operand \in Operands : MathRandom(key, operand)

\* a caller that awaits every call before it makes the next
Spec == Init /\ [][Next]_vars

\* the values stored while math calls are in flight
MathValues == {Num(0), Num(1), Str(S_bar)}

NextMath ==
    \/ \E key \in UserKeys, value \in MathValues : Set(key, value)
    \/ \E key \in UserKeys : Delete(key)
    \/ Clear
    \/ \E key \in UserKeys, operand \in Operands : MathStart(key, "add", operand)
    \/ \E i \in 1..MaxPending : MathFinish(i)

\* a caller that makes calls while its math calls are still in flight
SpecMath == Init /\ [][NextMath]_vars

\* the numbers a key is set to before adds are made on it
RaceValues == {Num(0), Num(1)}

NextRace ==
    \/ \E key \in RaceKeys, value \in RaceValues : Set(key, value)
    \/ \E key \in RaceKeys : Get(key)
    \/ \E key \in RaceKeys, operand \in Operands : MathRace(key, operand)
    \/ \E i \in 1..MaxRacing : MathFinish(i)

\* a caller that makes add calls without awaiting the ones it made before
SpecRace == Init /\ [][NextRace]_vars

\* before the constructor runs
InitNew ==
    /\ phase = "new"
    /\ options = NoOptions
    /\ kind = "none"
    /\ hasOn = FALSE
    /\ store = <<>>
    /\ pending = <<>>
    /\ last = NoCall
    /\ shadow = NoValues
    /\ sum = NoValues
    /\ cleared = FALSE
    /\ listeners = 0
    /\ reported = <<>>
    /\ delivered = <<>>
    /\ crashed = FALSE
    /\ written = NoWritten
    /\ adds = NoAdds

NextNew ==
    \/ \E o \in AllOptions : Construct(o)
    \/ On
    \/ \E err \in Errors : StoreError(err)

SpecNew == InitNew /\ [][NextNew]_vars

\* two facades of distinct namespaces over one empty backend object, a Map or
\* a backend module's instance, handed to both as options.store
SharedOptions == {[NoOptions EXCEPT !.store = "map"], [NoOptions EXCEPT !.store = "plain"]}

InitShared ==
    /\ phase = "ready"
    /\ options \in SharedOptions
    /\ kind = constructor(options).kind
    /\ hasOn = constructor(options).on
    /\ store = <<>>
    /\ pending = <<>>
    /\ last = NoCall
    /\ shadow = NoValues
    /\ sum = NoValues
    /\ cleared = FALSE
    /\ listeners = 0
    /\ reported = <<>>
    /\ delivered = <<>>
    /\ crashed = FALSE
    /\ written = NoWritten
    /\ adds = NoAdds

NextShared ==
    \/ \E ns \in DOMAIN NoWritten, key \in SharedKeys, value \in SharedValues :
          SetOf(ns, key, value)
    \/ \E ns \in DOMAIN NoWritten, key \in SharedKeys : DeleteOf(ns, key)
    \/ \E ns \in DOMAIN NoWritten : ClearOf(ns)
    \/ \E ns \in DOMAIN NoWritten, key \in SharedKeys, operand \in Operands :
          MathOf(ns, key, operand)

\* the callers of both facades await every call before the next is made
SpecShared == InitShared /\ [][NextShared]_vars

\* ------------------------------------------------------------------ claims

\* the keys with a set not yet undone by delete or clear
SetKeys == {k \in UserKeys : shadow[k] # Undefined}

\* C1: set(k, v) resolves to true, and from then until the next set, delete,
\* clear or math on k, get(k) resolves to v, whatever came before.
C1_SetThenGet ==
    /\ last.op = "set" => last.res = True
    /\ last.op = "get" /\ last.before # Undefined => last.res = last.before
    /\ \A k \in SetKeys : get(k) = shadow[k]

\* a get that returned the object set earlier, with the other key set too
C1_Witness ==
    /\ last.op = "get"
    /\ last.before = Obj(<< <<S_bar, Str(S_fizz)>> >>)
    /\ last.res = last.before
    /\ Len(store) = 2

\* C2: on every backend, has(k) resolves to true when k has been set and
\* not deleted or cleared since, and to false otherwise.
C2_HasFollowsSet == last.op = "has" => last.res = Bool(last.before # Undefined)

\* C3: delete(k) resolves to true exactly when k was present, and right
\* after a successful delete get(k) is undefined and has(k) is false.
C3_DeleteOnce ==
    /\ last.op = "delete" => last.res = Bool(last.before # Undefined)
    /\ last.op = "delete" /\ last.res = True =>
          get(last.key) = Undefined /\ has(last.key) = False

\* C4: clear() resolves to undefined, and from then until the next set or
\* math, all() has no entries, get(k) is undefined and has(k) is false.
C4_ClearEmpties ==
    /\ last.op = "clear" => last.res = Undefined
    /\ cleared => /\ all = List(<<>>)
                  /\ \A k \in UserKeys : get(k) = Undefined /\ has(k) = False

\* a clear that found two entries
C4_Witness == cleared /\ last.op = "clear" /\ last.before = Num(2)

\* C5: on the Map backend all() resolves to exactly one {key, value} entry
\* per key set, with the caller's key and the value last set for it.
C5_AllListsEntries ==
    last.op = "all" /\ kind = "map" =>
        /\ last.res.t = "list"
        /\ Len(last.res.v) = Cardinality(SetKeys)
        /\ \A k \in SetKeys :
              \E i \in 1..Len(last.res.v) : last.res.v[i] = [key |-> k, value |-> shadow[k]]

\* the value find is said to resolve to: that of the first entry, in the
\* backend's order, whose set value satisfies fn; undefined when none does
FirstValue(fn) ==
    LET keyAt(i) == CHOOSE k \in UserKeys : addKeyPrefix(k) = store[i].key
        hits == {i \in 1..Len(store) : Apply(fn, shadow[keyAt(i)])}
    IN  IF hits = {} THEN Undefined
        ELSE shadow[keyAt(CHOOSE i \in hits : \A j \in hits : i <= j)]

\* C6: find(fn) resolves to the value of the first stored element whose
\* value satisfies fn, and to undefined when no stored value does.
C6_FindValue == last.op = "find" => last.res = FirstValue(last.arg.v)

\* C7: after set(k, m), math(k, 'add', n) with nothing else in flight on k
\* resolves to true and leaves get(k) = m + n; adds one after another leave
\* the sum of m and all their operands.
C7_MathAdds ==
    /\ \A k \in UserKeys : sum[k] # Undefined => get(k) = sum[k]
    /\ last.op = "math" /\ last.before # Undefined => last.res = True

\* an add that brought the key to 2
C7_Witness ==
    /\ last.op = "math"
    /\ last.arg.v = <<"add", 1>>
    /\ last.before = Num(1)
    /\ last.res = True
    /\ sum[last.key] = Num(2)
    /\ get(last.key) = Num(2)

\* C8: set hands the backend serialize(v) after invoking serialize, and get
\* of a present key invokes deserialize on what the backend returns and
\* resolves to its result.
C8_HooksApplied ==
    /\ last.op = "set" =>
          last.ser /\ storeGet(addKeyPrefix(last.key)) = serialize(last.arg)
    /\ last.op = "get" /\ last.before # Undefined =>
          last.de /\ last.res = deserialize(storeGet(addKeyPrefix(last.key)))

\* the name the resolver looks up: the adapter option if given, else the
\* part of the URI before its first ':'; <<>> when neither is given
ResolvedName(o) ==
    IF o.adapter # Undefined THEN o.adapter.v
    ELSE IF o.uri # Undefined THEN SchemeOf(o.uri.v)
    ELSE <<>>

\* C9: construction never throws, and with no store given and a name that
\* is not a listed adapter the instance is over a fresh, empty Map.
C9_FallsBackToMap ==
    /\ phase # "threw"
    /\ phase = "ready" /\ options.store = "none" /\ ResolvedName(options) \notin ListedAdapters =>
          kind = "map" /\ store = <<>>

\* C10: every error the backend reports goes out once, unchanged, on the
\* facade's 'error' channel, and no exception escapes while it does.
C10_ErrorsForwarded == delivered = reported /\ ~crashed

\* C11: for two facades of distinct namespaces over one backend object, a
\* set, delete, math or clear settled on one leaves what get(k), has(k) and
\* all() resolve to on the other as they were, for every key k, and all() on
\* a facade lists only entries whose keys were written through that facade
C11_NamespacesIsolate ==
    /\ last.op \in {"set", "delete", "math", "clear"} =>
          ViewOf(Other(last.ns)) = last.before
    /\ \A ns \in DOMAIN NoWritten :
          allOf(ns).t = "list" =>
              \A i \in 1..Len(allOf(ns).v) : allOf(ns).v[i].key \in written[ns]

\* the keys whose latest set left a number, with two adds called since and
\* both resolved, and nothing else done to the key meanwhile
TwoAdds == {k \in RaceKeys : adds[k].m # Undefined /\ Len(adds[k].ops) = 2 /\ ~InFlight(k)}

\* m + a + b for such a key
AddedUp(k) == Num(adds[k].m.v + adds[k].ops[1] + adds[k].ops[2])

\* m + a and m + b for such a key
AddedOne(k) == {Num(adds[k].m.v + adds[k].ops[i]) : i \in 1..2}

\* C12 as stated: when k holds the number m and math(k, 'add', a) and
\* math(k, 'add', b) are started without awaiting the first, then however
\* their gets and sets interleave, once both have resolved get(k) is m + a + b
C12_NoLostUpdate == \A k \in TwoAdds : get(k) = AddedUp(k)

\* C12 amended: once both have resolved get(k) is m + a + b when the second
\* call's get ran after the first call's set; when both gets ran before
\* either set, it is m + a or m + b, the value of the set that ran last
C12_AddsOrLosesOne ==
    \A k \in TwoAdds :
        IF adds[k].overlap THEN get(k) \in AddedOne(k) ELSE get(k) = AddedUp(k)

\* both adds read 0 before either set and the first one's set ran last: the
\* key is left at 0 + 1, not at 0 + 1 + 2
C12_Witness ==
    /\ S_foo \in TwoAdds
    /\ adds[S_foo] = [m |-> Num(0), ops |-> <<1, 2>>, overlap |-> TRUE]
    /\ get(S_foo) = Num(1)
    /\ last.op = "math"
    /\ last.key = S_foo

====
